---------------------------- MODULE Spec2Model ----------------------------
(***************************************************************************)
(* A model of the sales report application (src/app.py): the cleaning of  *)
(* an uploaded table (load_and_clean), its aggregation (summarize), the    *)
(* chart artifact (make_daily_revenue_chart) and the report store behind   *)
(* the routes report_create, report_view and history.                      *)
(*                                                                         *)
(* Numbers.  A quantity, a revenue and a number of units are fixed-point   *)
(* numbers: the integer n stands for n / Scale.  A unit price is a whole   *)
(* number, so that quantity * unit_price is again a multiple of 1 / Scale. *)
(* A timestamp is day * TicksPerDay + time of day.  A cell of a column is  *)
(* a record [k, v]: k = "na" is pandas' missing value (NaN, NaT), "txt" a  *)
(* text that is neither a number nor a date, "num" a number, "dt" a date.  *)
(*                                                                         *)
(* Two specifications.  SpecData applies load_and_clean and summarize to   *)
(* one table of DataTables.  Spec is the application: every accepted       *)
(* upload runs report_create in a thread of its own, one step per access   *)
(* to what the threads share (the clock, STATIC_DIR, the database), and    *)
(* the r-th accepted upload carries the table ValidUpload(r).  A response  *)
(* is held in resp until it is sent, and a step is taken only when no      *)
(* response is held: the responses are observed one at a time, in the      *)
(* order in which they were produced.                                      *)
(*                                                                         *)
(* JSON.  json.dumps writes a sequence of tokens, key after key in the     *)
(* order of the dict, and json.loads reads the tokens back.                *)
(***************************************************************************)
EXTENDS Integers, Sequences, FiniteSets, TLC

\* ------------------------------------------------------------------ bounds
Scale == 2
TicksPerDay == 2
MaxHead == 2
MaxCreates == 2
MaxClock == 1

\* ------------------------------------------------------- program constants
TopN == 10
DailyN == 14
HistoryLimit == 50

REQUIRED_COLS == {"date", "order_id", "product", "quantity", "unit_price"}

\* ------------------------------------------------------------------- cells
NA == [k |-> "na", v |-> 0]
Txt(c) == [k |-> "txt", v |-> c]
Num(n) == [k |-> "num", v |-> n]
Dt(t) == [k |-> "dt", v |-> t]
DateTime(day, tod) == day * TicksPerDay + tod

isna(c) == c.k = "na"

\* pd.to_datetime(errors="coerce"): a cell that is not a date becomes NaT
to_datetime(c) == IF c.k = "dt" THEN c ELSE NA

\* pd.to_numeric(errors="coerce"): a cell that is not a number becomes NaN
to_numeric(c) == IF c.k = "num" THEN c ELSE NA

\* .dt.date: the calendar day of a timestamp, the time of day discarded
DateOf(c) == c.v \div TicksPerDay

\* -------------------------------------------------------------- data frames
\* A data frame is the sequence of its rows, a row a record of cells.
Range(s) == {s[i] : i \in 1 .. Len(s)}

Min(a, b) == IF a < b THEN a ELSE b

\* df[mask]: the rows a boolean mask keeps, in their order
RECURSIVE BoolIndex(_, _)
BoolIndex(rows, mask) ==
    IF rows = << >> THEN << >>
    ELSE (IF Head(mask) THEN << Head(rows) >> ELSE << >>)
            \o BoolIndex(Tail(rows), Tail(mask))

RECURSIVE SumSeq(_)
SumSeq(s) == IF s = << >> THEN 0 ELSE Head(s) + SumSeq(Tail(s))

\* df[col].sum()
sum(rows, col) == SumSeq([i \in 1 .. Len(rows) |-> rows[i][col].v])

\* df[col].nunique(): the number of distinct values, missing values not counted
nunique(rows, col) ==
    Cardinality({rows[i][col] : i \in {j \in 1 .. Len(rows) : ~isna(rows[j][col])}})

\* DataFrame.head(n)
head(rows, n) == SubSeq(rows, 1, Min(Len(rows), n))

\* a before b in the lexicographic order of the columns cols, descending
RECURSIVE Descending(_, _, _)
Descending(a, b, cols) ==
    /\ cols # << >>
    /\ \/ a[Head(cols)] > b[Head(cols)]
       \/ a[Head(cols)] = b[Head(cols)] /\ Descending(a, b, Tail(cols))

\* sort_values(cols, ascending=False): a stable sort, by insertion
InsertSorted(x, sorted, cols) ==
    LET later == {i \in 1 .. Len(sorted) : Descending(x, sorted[i], cols)}
        pos == IF later = {} THEN Len(sorted) + 1
               ELSE CHOOSE i \in later : \A j \in later : i <= j
    IN  SubSeq(sorted, 1, pos - 1) \o << x >> \o SubSeq(sorted, pos, Len(sorted))

sort_values(rows, cols) ==
    LET sorted[k \in 0 .. Len(rows)] ==
            IF k = 0 THEN << >> ELSE InsertSorted(rows[k], sorted[k - 1], cols)
    IN  sorted[Len(rows)]

\* the keys of a groupby, which sorts them ascending
RECURSIVE SortedKeys(_)
SortedKeys(S) ==
    IF S = {} THEN << >>
    ELSE LET m == CHOOSE x \in S : \A y \in S : x <= y
         IN  << m >> \o SortedKeys(S \ {m})

\* ---------------------------------------------------------- load_and_clean
MissingCols(table) == REQUIRED_COLS \ table.columns

\* lines 57 to 59: the three columns coerced
Coerce(rows) ==
    [i \in 1 .. Len(rows) |->
        [date |-> to_datetime(rows[i].date),
         order_id |-> rows[i].order_id,
         product |-> rows[i].product,
         quantity |-> to_numeric(rows[i].quantity),
         unit_price |-> to_numeric(rows[i].unit_price)]]

\* dropna(subset=[...]): the rows that miss none of the five fields
dropna(rows) ==
    BoolIndex(rows, [i \in 1 .. Len(rows) |->
                        \A col \in REQUIRED_COLS : ~isna(rows[i][col])])

\* a mutant of QuantityPositive: a quantity of 0 is kept
QuantityNonNegative(rows) ==
    BoolIndex(rows, [i \in 1 .. Len(rows) |-> rows[i].quantity.v >= 0])

\* df[df["quantity"] > 0]
QuantityPositive(rows) ==
    BoolIndex(rows, [i \in 1 .. Len(rows) |-> rows[i].quantity.v > 0])

\* df[df["unit_price"] >= 0]
PriceNonNegative(rows) ==
    BoolIndex(rows, [i \in 1 .. Len(rows) |-> rows[i].unit_price.v >= 0])

\* df["revenue"] = df["quantity"] * df["unit_price"]
WithRevenue(rows) ==
    [i \in 1 .. Len(rows) |->
        [date |-> rows[i].date,
         order_id |-> rows[i].order_id,
         product |-> rows[i].product,
         quantity |-> rows[i].quantity,
         unit_price |-> rows[i].unit_price,
         revenue |-> Num(rows[i].quantity.v * rows[i].unit_price.v)]]

\* the data frame load_and_clean returns for a table that has the columns
load_and_clean(table) ==
    WithRevenue(PriceNonNegative(QuantityPositive(dropna(Coerce(table.rows)))))

\* --------------------------------------------------------------- summarize
RECURSIVE Gcd(_, _)
Gcd(a, b) == IF b = 0 THEN a ELSE Gcd(b, a % b)

\* the quotient a / b of a float division, b > 0, as a fraction in lowest terms
Quotient(a, b) ==
    LET g == Gcd(IF a < 0 THEN -a ELSE a, b)
    IN  [num |-> a \div g, den |-> b \div g]

Zero == [num |-> 0, den |-> 1]

\* int(x) of a fixed-point x >= 0: its whole part
IntOf(x) == x \div Scale

Kpi(df) ==
    LET total_revenue == sum(df, "revenue")
        total_orders == nunique(df, "order_id")
        total_items == IntOf(sum(df, "quantity"))
        aov == IF total_orders # 0 THEN Quotient(total_revenue, total_orders) ELSE Zero
    IN  [total_revenue |-> total_revenue, total_orders |-> total_orders,
         total_items |-> total_items, aov |-> aov]

\* groupby("product"): the keys, and the rows of a key
ProductKeys(df) == SortedKeys({r.product.v : r \in Range(df)})

ProductGroup(df, p) == BoolIndex(df, [i \in 1 .. Len(df) |-> df[i].product.v = p])

ProductAgg(df, p) ==
    LET g == ProductGroup(df, p)
    IN  [product |-> p, revenue |-> sum(g, "revenue"),
         units |-> sum(g, "quantity"), orders |-> nunique(g, "order_id")]

\* a mutant of TopProducts: the first ten products are taken before the sort
TopProductsHeadFirst(df) ==
    LET keys == ProductKeys(df)
        agg == [i \in 1 .. Len(keys) |-> ProductAgg(df, keys[i])]
    IN  sort_values(head(agg, TopN), << "revenue", "units" >>)

TopProducts(df) ==
    LET keys == ProductKeys(df)
        agg == [i \in 1 .. Len(keys) |-> ProductAgg(df, keys[i])]
    IN  head(sort_values(agg, << "revenue", "units" >>), TopN)

\* groupby(df["date"].dt.date): the keys, and the rows of a key
DayKeys(df) == SortedKeys({DateOf(r.date) : r \in Range(df)})

DayGroup(df, d) == BoolIndex(df, [i \in 1 .. Len(df) |-> DateOf(df[i].date) = d])

DayAgg(df, d) ==
    LET g == DayGroup(df, d)
    IN  [day |-> d, revenue |-> sum(g, "revenue"),
         orders |-> nunique(g, "order_id"), units |-> sum(g, "quantity")]

\* astype(str) of a calendar day: its ISO text
DayStr(d) == [iso |-> d]

\* a mutant of Daily: the first fourteen days are taken from the oldest
DailyOldestFirst(df) ==
    LET keys == DayKeys(df)
        agg == [i \in 1 .. Len(keys) |-> DayAgg(df, keys[i])]
        recent == sort_values(head(agg, DailyN), << "day" >>)
    IN  [i \in 1 .. Len(recent) |->
            [day |-> DayStr(recent[i].day), revenue |-> recent[i].revenue,
             orders |-> recent[i].orders, units |-> recent[i].units]]

Daily(df) ==
    LET keys == DayKeys(df)
        agg == [i \in 1 .. Len(keys) |-> DayAgg(df, keys[i])]
        recent == head(sort_values(agg, << "day" >>), DailyN)
    IN  [i \in 1 .. Len(recent) |->
            [day |-> DayStr(recent[i].day), revenue |-> recent[i].revenue,
             orders |-> recent[i].orders, units |-> recent[i].units]]

summarize(df) == [kpi |-> Kpi(df), top_products |-> TopProducts(df), daily |-> Daily(df)]

\* ------------------------------------------------------------------ inputs
Row(d, o, p, q, u) ==
    [date |-> d, order_id |-> o, product |-> p, quantity |-> q, unit_price |-> u]

\* a long table: row i has its own product and its own day, two rows share an
\* order, and quantities and prices repeat so that revenues and units tie
TailRow(i) ==
    Row(Dt(DateTime(i, i % TicksPerDay)), Txt(i \div 2), Txt(i),
        Num(1 + (i % 3)), Num(i % 4))

TailRows(n) == [i \in 1 .. n |-> TailRow(i)]

\* the long tables stop at the two windows, so that the rows put in front of
\* them leave a window unfilled, fill it or overflow it
TailSizes == {0, TopN - 1, DailyN}

OldDay == Dt(DateTime(0, 0))
TailDay == Dt(DateTime(2, 1))
NewDay == Dt(DateTime(DailyN + 6, 0))
TailProduct == Txt(1)
ProductA == Txt(DailyN + 16)
ProductB == Txt(DailyN + 17)

ValidHeadRows ==
    {Row(OldDay, Txt(0), ProductA, Num(1), Num(7)),
     Row(NewDay, Txt(50), ProductB, Num(Scale + 1), Num(1)),
     Row(TailDay, Txt(1), TailProduct, Num(Scale), Num(0)),
     Row(NewDay, Txt(0), ProductA, Num(1), Num(7)),
     Row(OldDay, Txt(50), TailProduct, Num(Scale + 1), Num(2)),
     Row(TailDay, Txt(50), ProductB, Num(1), Num(1))}

DefectHeadRows ==
    {Row(d, Txt(1), TailProduct, Num(Scale), Num(3)) : d \in {NA, Txt(0)}}
    \cup {Row(TailDay, NA, TailProduct, Num(Scale), Num(3)),
          Row(TailDay, Txt(1), NA, Num(Scale), Num(3))}
    \cup {Row(TailDay, Txt(1), TailProduct, q, Num(3)) : q \in {Txt(0), Num(0), Num(-1)}}
    \cup {Row(TailDay, Txt(1), TailProduct, Num(Scale), u) : u \in {NA, Num(-1)}}

HeadRows == ValidHeadRows \cup DefectHeadRows

RECURSIVE SeqsUpTo(_, _)
SeqsUpTo(S, n) ==
    IF n = 0 THEN {<< >>}
    ELSE LET shorter == SeqsUpTo(S, n - 1)
         IN  shorter \cup {<< x >> \o s : x \in S, s \in {t \in shorter : Len(t) = n - 1}}

DataTables ==
    {[columns |-> REQUIRED_COLS \cup {"note"}, rows |-> h \o TailRows(n)] :
        h \in SeqsUpTo(HeadRows, MaxHead), n \in TailSizes}
    \cup {[columns |-> REQUIRED_COLS \ c, rows |-> << TailRow(1) >>] :
            c \in {{"unit_price"}, {"date", "quantity"}}}

\* -------------------------------------------------------------------- json
\* json.dumps writes a text and json.loads reads one.  A text is a sequence of
\* tokens; the token of a number or of a string carries its value, for the
\* number Python writes is the shortest that reads back as the same number.
\* An object's keys are written in the order of the dict (the order of the
\* columns for DataFrame.to_dict(orient="records")).
KpiKeys == << "total_revenue", "total_orders", "total_items", "aov" >>
TopProductKeys == << "product", "revenue", "units", "orders" >>
DailyKeys == << "day", "revenue", "orders", "units" >>
StringKeys == {"product", "day"}

Tok(t) == [t |-> t]

RECURSIVE Flatten(_)
Flatten(ss) == IF ss = << >> THEN << >> ELSE Head(ss) \o Flatten(Tail(ss))

DumpsMember(keys, obj, i) ==
    << [t |-> "key", s |-> keys[i]],
       IF keys[i] \in StringKeys THEN [t |-> "str", s |-> obj[keys[i]]]
       ELSE [t |-> "num", n |-> obj[keys[i]]] >>

DumpsObject(keys, obj) ==
    << Tok("{") >> \o Flatten([i \in 1 .. Len(keys) |-> DumpsMember(keys, obj, i)])
        \o << Tok("}") >>

DumpsRecords(keys, records) ==
    << Tok("[") >> \o Flatten([i \in 1 .. Len(records) |-> DumpsObject(keys, records[i])])
        \o << Tok("]") >>

\* the members of an object, read up to its closing brace: [val, rest]
RECURSIVE LoadsMembers(_, _)
LoadsMembers(toks, obj) ==
    IF Head(toks).t = "}" THEN [val |-> obj, rest |-> Tail(toks)]
    ELSE LET key == toks[1].s
             value == IF toks[2].t = "str" THEN toks[2].s ELSE toks[2].n
         IN  LoadsMembers(SubSeq(toks, 3, Len(toks)), (key :> value) @@ obj)

\* a mutant of LoadsItems: the array is read back to front
RECURSIVE LoadsItemsReversed(_, _)
LoadsItemsReversed(toks, items) ==
    IF Head(toks).t = "]" THEN [val |-> items, rest |-> Tail(toks)]
    ELSE LET item == LoadsMembers(Tail(toks), << >>)
         IN  LoadsItemsReversed(item.rest, << item.val >> \o items)

\* the objects of an array, read up to its closing bracket
RECURSIVE LoadsItems(_, _)
LoadsItems(toks, items) ==
    IF Head(toks).t = "]" THEN [val |-> items, rest |-> Tail(toks)]
    ELSE LET item == LoadsMembers(Tail(toks), << >>)
         IN  LoadsItems(item.rest, Append(items, item.val))

loads(toks) ==
    IF Head(toks).t = "[" THEN LoadsItems(Tail(toks), << >>).val
    ELSE LoadsMembers(Tail(toks), << >>).val

\* ----------------------------------------------------------------- uploads
Table(rows) == [columns |-> REQUIRED_COLS, rows |-> rows]

NoName == [csv |-> 0]
FileName(n) == [csv |-> n]

\* the upload of scenario A: Widget and Gadget of one order on the first day,
\* and a row of quantity -1 on the second
ScenarioA ==
    Table(<< Row(Dt(DateTime(1, 0)), Txt(1), Txt(2), Num(2 * Scale), Num(10)),
             Row(Dt(DateTime(1, 0)), Txt(1), Txt(1), Num(Scale), Num(5)),
             Row(Dt(DateTime(2, 0)), Txt(2), Txt(2), Num(-Scale), Num(10)) >>)

\* the valid upload of the r-th report: scenario A and, so that every report
\* has data of its own, a row of the day r + 1 whose quantity is not whole
ValidUpload(r) ==
    [filename |-> FileName(r),
     table |-> Table(ScenarioA.rows
                     \o << Row(Dt(DateTime(r + 1, 1)), Txt(3), Txt(1), Num(Scale + 1),
                               Num(r)) >>)]

NoUnitPrice ==
    [columns |-> REQUIRED_COLS \ {"unit_price"}, rows |-> << TailRow(1) >>]

ZeroQuantity ==
    Table(<< Row(Dt(DateTime(1, 0)), Txt(1), Txt(1), Num(0), Num(5)),
             Row(Dt(DateTime(2, 0)), Txt(2), Txt(2), Num(0), Num(0)) >>)

InvalidUploads ==
    {[filename |-> NoName, table |-> ScenarioA],
     [filename |-> FileName(MaxCreates + 1), table |-> NoUnitPrice],
     [filename |-> FileName(MaxCreates + 2), table |-> ZeroQuantity]}

\* ------------------------------------------------------------------- state
VARIABLES
    raw, stage, df, summary,   \* the pipeline applied to one table
    clock,                     \* datetime.now(), in seconds
    pc, local,                 \* per report_create thread: its position, its locals
    resp,                      \* the response on its way to the client, if any
    static,                    \* STATIC_DIR: file name -> content
    reports, sqlite_sequence,  \* the table reports and its AUTOINCREMENT counter
    writer,                    \* the thread holding the database's write lock, or 0
    saved, committed           \* history: the savefig calls per name, the commits

dvars == << raw, stage, df, summary >>
wvars == << clock, pc, local, resp, static, reports, sqlite_sequence, writer, saved,
            committed >>
vars == << raw, stage, df, summary, clock, pc, local, resp, static, reports,
           sqlite_sequence, writer, saved, committed >>

\* every accepted upload is served by a thread of its own
Threads == 1 .. MaxCreates

NoSummary == [kpi |-> [total_revenue |-> 0, total_orders |-> 0, total_items |-> 0,
                       aov |-> Zero],
              top_products |-> << >>, daily |-> << >>]

NoLocal == [filename |-> NoName, df |-> << >>, summary |-> NoSummary,
            chart_file |-> [png |-> 0], created_at |-> [iso |-> 0], report_id |-> 0]

NoResponse == [kind |-> "none"]

WebInit ==
    /\ clock = 0
    /\ pc = [p \in Threads |-> "new"]
    /\ local = [p \in Threads |-> NoLocal]
    /\ resp = NoResponse
    /\ static = << >>
    /\ reports = << >>
    /\ sqlite_sequence = 0
    /\ writer = 0
    /\ saved = << >>
    /\ committed = << >>

DataIdle ==
    /\ raw = Table(<< >>)
    /\ stage = "raw"
    /\ df = << >>
    /\ summary = NoSummary

\* ------------------------------------------------- the pipeline on a table
DataInit ==
    /\ raw \in DataTables
    /\ stage = "raw"
    /\ df = << >>
    /\ summary = NoSummary
    /\ WebInit

\* load_and_clean raises ValueError when a required column is missing
CleanRejects ==
    /\ stage = "raw"
    /\ MissingCols(raw) # {}
    /\ stage' = "schema_error"
    /\ UNCHANGED << raw, df, summary >>
    /\ UNCHANGED wvars

CleanReturns ==
    /\ stage = "raw"
    /\ MissingCols(raw) = {}
    /\ df' = load_and_clean(raw)
    /\ stage' = "cleaned"
    /\ UNCHANGED << raw, summary >>
    /\ UNCHANGED wvars

Summarizes ==
    /\ stage = "cleaned"
    /\ summary' = summarize(df)
    /\ stage' = "summarized"
    /\ UNCHANGED << raw, df >>
    /\ UNCHANGED wvars

DataNext == CleanRejects \/ CleanReturns \/ Summarizes

SpecData == DataInit /\ [][DataNext]_vars

\* -------------------------------------------------------------- the routes
\* The model follows one response at a time: a step is taken when the response
\* of the step before it has reached its client (Sent).  No step reads resp, so
\* this leaves out no state of the other variables.
Ready == resp = NoResponse

\* report_create returns: the thread ends and its locals are gone
Respond(p, r) ==
    /\ resp' = r
    /\ pc' = [pc EXCEPT ![p] = "done"]
    /\ local' = [local EXCEPT ![p] = NoLocal]

\* a step of report_create that goes on to the next
Goto(p, label) ==
    /\ resp' = resp
    /\ pc' = [pc EXCEPT ![p] = label]

\* report_create: no file, or a file without a name
CreateNoFile(f) ==
    /\ Ready
    /\ f.filename = NoName
    /\ resp' = [kind |-> "error", reason |-> "no_file"]
    /\ UNCHANGED << clock, pc, local, static, reports, sqlite_sequence, writer, saved,
                    committed >>
    /\ UNCHANGED dvars

\* report_create: load_and_clean raises for the missing columns
CreateSchemaError(f) ==
    /\ Ready
    /\ f.filename # NoName
    /\ MissingCols(f.table) # {}
    /\ resp' = [kind |-> "error", reason |-> "missing_columns",
                columns |-> MissingCols(f.table)]
    /\ UNCHANGED << clock, pc, local, static, reports, sqlite_sequence, writer, saved,
                    committed >>
    /\ UNCHANGED dvars

\* a mutant of CreateEmpty: the chart is rendered before the data is found empty
CreateEmptyAfterChart(f) ==
    /\ Ready
    /\ f.filename # NoName
    /\ MissingCols(f.table) = {}
    /\ load_and_clean(f.table) = << >>
    /\ static' = ([png |-> clock] :> << >>) @@ static
    /\ resp' = [kind |-> "error", reason |-> "no_valid_rows"]
    /\ UNCHANGED << clock, pc, local, reports, sqlite_sequence, writer, saved, committed >>
    /\ UNCHANGED dvars

\* report_create: no row survives the cleaning
CreateEmpty(f) ==
    /\ Ready
    /\ f.filename # NoName
    /\ MissingCols(f.table) = {}
    /\ load_and_clean(f.table) = << >>
    /\ resp' = [kind |-> "error", reason |-> "no_valid_rows"]
    /\ UNCHANGED << clock, pc, local, static, reports, sqlite_sequence, writer, saved,
                    committed >>
    /\ UNCHANGED dvars

\* report_create: the data is cleaned and summarized.  The threads are taken in
\* their order.
CreateSummarize(p, f) ==
    /\ Ready
    /\ pc[p] = "new"
    /\ \A q \in Threads : q < p => pc[q] # "new"
    /\ f.filename # NoName
    /\ MissingCols(f.table) = {}
    /\ load_and_clean(f.table) # << >>
    /\ local' = [local EXCEPT ![p] =
                    [NoLocal EXCEPT !.filename = f.filename,
                                    !.df = load_and_clean(f.table),
                                    !.summary = summarize(load_and_clean(f.table))]]
    /\ Goto(p, "chart")
    /\ UNCHANGED << clock, static, reports, sqlite_sequence, writer, saved, committed >>
    /\ UNCHANGED dvars

\* strftime('%Y%m%d_%H%M%S') in the name of the chart: the second of the clock
ChartName(t) == [png |-> t]

\* the curve of the chart: the revenue of each day, the days ascending
ChartData(d) ==
    LET keys == DayKeys(d)
    IN  [i \in 1 .. Len(keys) |->
            [day |-> keys[i], revenue |-> sum(DayGroup(d, keys[i]), "revenue")]]

\* make_daily_revenue_chart, up to the name of the file
ChartNamed(p) ==
    /\ Ready
    /\ pc[p] = "chart"
    /\ local' = [local EXCEPT ![p].chart_file = ChartName(clock)]
    /\ Goto(p, "savefig")
    /\ UNCHANGED << clock, static, reports, sqlite_sequence, writer, saved, committed >>
    /\ UNCHANGED dvars

\* fig.savefig(outpath) writes the file, over a file of that name
ChartSaved(p) ==
    /\ Ready
    /\ pc[p] = "savefig"
    /\ static' = (local[p].chart_file :> ChartData(local[p].df)) @@ static
    /\ saved' = IF local[p].chart_file \in DOMAIN saved
                THEN [saved EXCEPT ![local[p].chart_file] = @ + 1]
                ELSE (local[p].chart_file :> 1) @@ saved
    /\ Goto(p, "stamp")
    /\ UNCHANGED << clock, local, reports, sqlite_sequence, writer, committed >>
    /\ UNCHANGED dvars

\* a mutant of ChartFails: the failure is swallowed and the run goes on
ChartFailsIgnored(p) ==
    /\ Ready
    /\ pc[p] = "savefig"
    /\ Goto(p, "stamp")
    /\ UNCHANGED << clock, local, static, reports, sqlite_sequence, writer, saved,
                    committed >>
    /\ UNCHANGED dvars

\* fig.savefig raises: report_create's except answers with the error
ChartFails(p) ==
    /\ Ready
    /\ pc[p] = "savefig"
    /\ Respond(p, [kind |-> "error", reason |-> "exception"])
    /\ UNCHANGED << clock, static, reports, sqlite_sequence, writer, saved, committed >>
    /\ UNCHANGED dvars

\* isoformat(timespec="seconds")
IsoFormat(t) == [iso |-> t]

Stamped(p) ==
    /\ Ready
    /\ pc[p] = "stamp"
    /\ local' = [local EXCEPT ![p].created_at = IsoFormat(clock)]
    /\ Goto(p, "insert")
    /\ UNCHANGED << clock, static, reports, sqlite_sequence, writer, saved, committed >>
    /\ UNCHANGED dvars

Max(a, b) == IF a > b THEN a ELSE b

RECURSIVE MaxOf(_)
MaxOf(S) == IF S = {} THEN 0 ELSE LET x == CHOOSE y \in S : TRUE IN Max(x, MaxOf(S \ {x}))

\* AUTOINCREMENT: one more than the largest id the table ever held
NextRowId == Max(sqlite_sequence, MaxOf(DOMAIN reports)) + 1

\* a mutant of Inserted: the id is taken without the write lock
InsertedWithoutLock(p) ==
    /\ Ready
    /\ pc[p] = "insert"
    /\ writer' = p
    /\ local' = [local EXCEPT ![p].report_id = NextRowId]
    /\ Goto(p, "commit")
    /\ UNCHANGED << clock, static, reports, sqlite_sequence, saved, committed >>
    /\ UNCHANGED dvars

\* conn.execute(INSERT ...) opens the write transaction and takes the next id
Inserted(p) ==
    /\ Ready
    /\ pc[p] = "insert"
    /\ writer = 0
    /\ writer' = p
    /\ local' = [local EXCEPT ![p].report_id = NextRowId]
    /\ Goto(p, "commit")
    /\ UNCHANGED << clock, static, reports, sqlite_sequence, saved, committed >>
    /\ UNCHANGED dvars

\* conn.execute raises (the database stays locked, or cannot be written)
InsertFails(p) ==
    /\ Ready
    /\ pc[p] = "insert"
    /\ Respond(p, [kind |-> "error", reason |-> "exception"])
    /\ UNCHANGED << clock, static, reports, sqlite_sequence, writer, saved, committed >>
    /\ UNCHANGED dvars

ReportRow(l) ==
    [id |-> l.report_id,
     created_at |-> l.created_at,
     original_filename |-> l.filename,
     kpi_json |-> DumpsObject(KpiKeys, l.summary.kpi),
     top_products_json |-> DumpsRecords(TopProductKeys, l.summary.top_products),
     daily_json |-> DumpsRecords(DailyKeys, l.summary.daily),
     chart_file |-> l.chart_file]

\* conn.commit(), cur.lastrowid and the redirect to the report
Committed(p) ==
    /\ Ready
    /\ pc[p] = "commit"
    /\ reports' = (local[p].report_id :> ReportRow(local[p])) @@ reports
    /\ sqlite_sequence' = local[p].report_id
    /\ writer' = 0
    /\ committed' = Append(committed, local[p])
    /\ Respond(p, [kind |-> "redirect", report_id |-> local[p].report_id])
    /\ UNCHANGED << clock, static, saved >>
    /\ UNCHANGED dvars

\* conn.commit() raises: the with block rolls the transaction back
CommitFails(p) ==
    /\ Ready
    /\ pc[p] = "commit"
    /\ writer' = 0
    /\ Respond(p, [kind |-> "error", reason |-> "exception"])
    /\ UNCHANGED << clock, static, reports, sqlite_sequence, saved, committed >>
    /\ UNCHANGED dvars

\* the response of report_view for a row of the table
ReportPage(row) ==
    [kind |-> "report",
     kpi |-> loads(row.kpi_json),
     top_products |-> loads(row.top_products_json),
     daily |-> loads(row.daily_json),
     chart_file |-> row.chart_file,
     id |-> row.id,
     created_at |-> row.created_at,
     original_filename |-> row.original_filename]

\* report_view of a stored report
ViewFound(id) ==
    /\ Ready
    /\ id \in DOMAIN reports
    /\ resp' = ReportPage(reports[id])
    /\ UNCHANGED << clock, pc, local, static, reports, sqlite_sequence, writer, saved,
                    committed >>
    /\ UNCHANGED dvars

\* report_view of an id the table does not hold
ViewNotFound(id) ==
    /\ Ready
    /\ id \notin DOMAIN reports
    /\ resp' = [kind |-> "not_found", id |-> id]
    /\ UNCHANGED << clock, pc, local, static, reports, sqlite_sequence, writer, saved,
                    committed >>
    /\ UNCHANGED dvars

\* SELECT id, created_at, original_filename ... ORDER BY id DESC LIMIT 50
SelectRecent ==
    LET ids == SortedKeys(DOMAIN reports)
        n == Len(ids)
        desc == [i \in 1 .. n |-> ids[n + 1 - i]]
    IN  [i \in 1 .. Min(n, HistoryLimit) |->
            [id |-> reports[desc[i]].id,
             created_at |-> reports[desc[i]].created_at,
             original_filename |-> reports[desc[i]].original_filename]]

history ==
    /\ Ready
    /\ resp' = [kind |-> "history", reports |-> SelectRecent]
    /\ UNCHANGED << clock, pc, local, static, reports, sqlite_sequence, writer, saved,
                    committed >>
    /\ UNCHANGED dvars

\* a second passes
Tick ==
    /\ Ready
    /\ clock < MaxClock
    /\ clock' = clock + 1
    /\ UNCHANGED << resp, pc, local, static, reports, sqlite_sequence, writer, saved, committed >>
    /\ UNCHANGED dvars

\* the response has reached its client
Sent ==
    /\ resp # NoResponse
    /\ resp' = NoResponse
    /\ UNCHANGED << clock, pc, local, static, reports, sqlite_sequence, writer, saved,
                    committed >>
    /\ UNCHANGED dvars

Init == DataIdle /\ WebInit

Next ==
    \/ \E f \in InvalidUploads : CreateNoFile(f)
    \/ \E f \in InvalidUploads : CreateSchemaError(f)
    \/ \E f \in InvalidUploads : CreateEmpty(f)
    \/ \E p \in Threads : CreateSummarize(p, ValidUpload(p))
    \/ \E p \in Threads : ChartNamed(p)
    \/ \E p \in Threads : ChartSaved(p)
    \/ \E p \in Threads : ChartFails(p)
    \/ \E p \in Threads : Stamped(p)
    \/ \E p \in Threads : Inserted(p)
    \/ \E p \in Threads : InsertFails(p)
    \/ \E p \in Threads : Committed(p)
    \/ \E p \in Threads : CommitFails(p)
    \/ \E id \in 0 .. MaxCreates : ViewFound(id)
    \/ \E id \in 0 .. MaxCreates : ViewNotFound(id)
    \/ history
    \/ Sent
    \/ Tick

Spec == Init /\ [][Next]_vars

\* ------------------------------------------------- properties of the data
\* the sum of f over the indices S
RECURSIVE SumAt(_, _)
SumAt(f, S) ==
    IF S = {} THEN 0
    ELSE LET i == CHOOSE j \in S : TRUE IN f[i] + SumAt(f, S \ {i})

Cleaned == stage \in {"cleaned", "summarized"}

RawValid(r) ==
    /\ r.date.k = "dt"
    /\ r.quantity.k = "num"
    /\ r.unit_price.k = "num"
    /\ r.order_id.k # "na"
    /\ r.product.k # "na"
    /\ r.quantity.v > 0
    /\ r.unit_price.v >= 0

ValidIndices == {i \in 1 .. Len(raw.rows) : RawValid(raw.rows[i])}

\* the index in the raw table of the j-th valid row
NthValid(j) ==
    CHOOSE i \in ValidIndices : Cardinality({k \in ValidIndices : k <= i}) = j

RevenueCol == [i \in 1 .. Len(df) |-> df[i].revenue.v]
QuantityCol == [i \in 1 .. Len(df) |-> df[i].quantity.v]
AllRows == 1 .. Len(df)
OrdersOf(S) == {df[i].order_id : i \in S}

\* C6: total_revenue is the sum of revenue, total_orders the number of
\* distinct orders (at most the number of rows, and equal to it when the orders
\* are distinct), total_items the sum of the quantities, also of quantities
\* that are not whole, and the average order value total_revenue /
\* total_orders, or 0 when there is no order.
C6_Kpi ==
    stage = "summarized" =>
        LET kpi == summary.kpi
        IN  /\ kpi.total_revenue = SumAt(RevenueCol, AllRows)
            /\ kpi.total_orders = Cardinality(OrdersOf(AllRows))
            /\ kpi.total_orders <= Len(df)
            /\ (\A i, j \in AllRows : i # j => df[i].order_id # df[j].order_id)
                  => kpi.total_orders = Len(df)
            /\ kpi.total_items * Scale = SumAt(QuantityCol, AllRows)
            /\ kpi.total_orders > 0 =>
                  /\ kpi.aov.den > 0
                  /\ kpi.aov.num * kpi.total_orders = kpi.total_revenue * kpi.aov.den
            /\ kpi.total_orders = 0 => kpi.aov.num = 0

Products == {df[i].product.v : i \in AllRows}
RowsOfProduct(p) == {i \in AllRows : df[i].product.v = p}

\* C7: top_products holds one entry per product, with the product's sums of
\* revenue and of units and its number of distinct orders, sorted by revenue
\* and then units descending, min(10, number of products) long, and no product
\* left out has a (revenue, units) pair greater than that of an entry.
C7_TopProducts ==
    stage = "summarized" =>
        LET top == summary.top_products
            shown == {top[i].product : i \in 1 .. Len(top)}
        IN  /\ Len(top) = Min(TopN, Cardinality(Products))
            /\ shown \subseteq Products
            /\ Cardinality(shown) = Len(top)
            /\ \A i \in 1 .. Len(top) :
                  /\ top[i].revenue = SumAt(RevenueCol, RowsOfProduct(top[i].product))
                  /\ top[i].units = SumAt(QuantityCol, RowsOfProduct(top[i].product))
                  /\ top[i].orders = Cardinality(OrdersOf(RowsOfProduct(top[i].product)))
            /\ \A i, j \in 1 .. Len(top) :
                  i < j => \/ top[i].revenue > top[j].revenue
                           \/ /\ top[i].revenue = top[j].revenue
                              /\ top[i].units >= top[j].units
            /\ \A p \in Products \ shown : \A i \in 1 .. Len(top) :
                  LET rev == SumAt(RevenueCol, RowsOfProduct(p))
                      units == SumAt(QuantityCol, RowsOfProduct(p))
                  IN  ~ \/ rev > top[i].revenue
                        \/ rev = top[i].revenue /\ units > top[i].units

\* more products than the window holds, two entries that tie on revenue and a
\* product that spans several rows
C7_Witness ==
    /\ stage = "summarized"
    /\ Cardinality(Products) > TopN
    /\ Len(summary.top_products) = TopN
    /\ \E i \in 1 .. TopN - 1 :
          /\ summary.top_products[i].revenue = summary.top_products[i + 1].revenue
          /\ summary.top_products[i].units > summary.top_products[i + 1].units
    /\ \E p \in Products : Cardinality(RowsOfProduct(p)) > 1

Days == {df[i].date.v \div TicksPerDay : i \in AllRows}
RowsOfDay(d) == {i \in AllRows : df[i].date.v \div TicksPerDay = d}

\* C8: daily is min(14, number of days) long, strictly descending by day,
\* holds exactly the most recent days of the data, and each entry carries the
\* day's sums of revenue and units and its number of distinct orders, the
\* time of day discarded.
C8_Daily ==
    stage = "summarized" =>
        LET daily == summary.daily
            shown == {daily[i].day.iso : i \in 1 .. Len(daily)}
        IN  /\ Len(daily) = Min(DailyN, Cardinality(Days))
            /\ \A i \in 1 .. Len(daily) - 1 : daily[i].day.iso > daily[i + 1].day.iso
            /\ shown \subseteq Days
            /\ \A d \in Days \ shown : \A e \in shown : d < e
            /\ \A i \in 1 .. Len(daily) :
                  /\ daily[i].revenue = SumAt(RevenueCol, RowsOfDay(daily[i].day.iso))
                  /\ daily[i].units = SumAt(QuantityCol, RowsOfDay(daily[i].day.iso))
                  /\ daily[i].orders = Cardinality(OrdersOf(RowsOfDay(daily[i].day.iso)))

\* more days than the window holds, and a day with rows at two times of day
C8_Witness ==
    /\ stage = "summarized"
    /\ Cardinality(Days) > DailyN
    /\ Len(summary.daily) = DailyN
    /\ \E i, j \in AllRows :
          /\ df[i].date.v # df[j].date.v
          /\ df[i].date.v \div TicksPerDay = df[j].date.v \div TicksPerDay
          /\ df[i].date.v \div TicksPerDay \in
                {summary.daily[k].day.iso : k \in 1 .. Len(summary.daily)}

\* ------------------------------------------- properties of the application
Ids == DOMAIN reports

\* what report_view shows of a report, as the creating run computed it
Computed(c) ==
    [kind |-> "report",
     kpi |-> c.summary.kpi,
     top_products |-> c.summary.top_products,
     daily |-> c.summary.daily,
     chart_file |-> c.chart_file,
     id |-> c.report_id,
     created_at |-> c.created_at,
     original_filename |-> c.filename]

\* C1: every run that reaches the INSERT gets an id no run got before it, the
\* ids increase in the order of the commits, and history lists a report
\* created later before one created earlier.
C1_Identifiers ==
    /\ \A i, j \in 1 .. Len(committed) :
          i < j => committed[i].report_id < committed[j].report_id
    /\ Ids = {committed[i].report_id : i \in 1 .. Len(committed)}
    /\ \A p \in Threads :
          pc[p] = "commit" =>
              /\ local[p].report_id \notin Ids
              /\ \A id \in Ids : id < local[p].report_id
              /\ \A q \in Threads \ {p} : pc[q] # "commit"
    /\ resp.kind = "redirect" => resp.report_id = committed[Len(committed)].report_id
    /\ resp.kind = "history" =>
          /\ Len(resp.reports) = Len(committed)
          /\ \A i \in 1 .. Len(committed) :
                resp.reports[Len(committed) + 1 - i].id = committed[i].report_id

\* two runs at once, the one that started later committing first, and then
\* the listing
C1_Witness ==
    /\ Len(committed) >= 2
    /\ committed[1].filename = FileName(2)
    /\ committed[2].filename = FileName(1)
    /\ resp.kind = "history"

\* C2: every render writes one file under a name no render used before: no
\* two renders, in one second or at once, share a name, and no render
\* overwrites the file of another.
C2_UniqueArtifacts ==
    /\ \A name \in DOMAIN saved : saved[name] = 1
    /\ \A i, j \in 1 .. Len(committed) :
           i # j => committed[i].chart_file # committed[j].chart_file

Rejection(r) ==
    /\ r.kind = "error"
    /\ r.reason \in {"missing_columns", "no_valid_rows"}

\* C3: a run that ends with the rejection of the missing columns or of the
\* empty data has written no chart and no record: the files and the stored
\* reports are as they were, and no stored report is of a rejected upload.
C3_RejectedBeforePersistence ==
    /\ [][(resp' # resp /\ Rejection(resp')) =>
              /\ static' = static
              /\ saved' = saved
              /\ reports' = reports
              /\ sqlite_sequence' = sqlite_sequence
              /\ writer' = writer
              /\ (resp'.reason = "missing_columns" =>
                     resp'.columns = REQUIRED_COLS \ NoUnitPrice.columns)]_vars
    /\ [](\A id \in Ids :
              reports[id].original_filename \in {FileName(p) : p \in Threads})

\* the rejection of the empty data, when there are a chart and a report
C3_Witness ==
    /\ resp.kind = "error"
    /\ resp.reason = "no_valid_rows"
    /\ Ids # {}
    /\ DOMAIN static # {}

\* C4: the chart is written before the record; the run redirects to the
\* report only when the chart was saved and the INSERT committed; a run whose
\* render or whose INSERT fails answers with the error and leaves no record;
\* and the chart_file of every stored report names a file that was written.
C4_ChartBeforeRecord ==
    /\ [](/\ \A id \in Ids : reports[id].chart_file \in DOMAIN static
          /\ \A p \in Threads :
                pc[p] \in {"stamp", "insert", "commit"} =>
                    local[p].chart_file \in DOMAIN static
          /\ resp.kind = "redirect" =>
                /\ resp.report_id \in Ids
                /\ reports[resp.report_id].chart_file \in DOMAIN static)
    /\ [][\A p \in Threads :
              pc'[p] # pc[p] =>
                  /\ (pc[p] # "commit" => reports' = reports)
                  /\ (pc[p] = "savefig" /\ pc'[p] = "stamp"
                         => local[p].chart_file \in DOMAIN static')
                  /\ (pc'[p] = "done" /\ reports' = reports => resp'.kind = "error")
                  /\ (pc'[p] = "done" /\ resp'.kind = "redirect"
                         => /\ pc[p] = "commit"
                            /\ resp'.report_id \notin Ids
                            /\ resp'.report_id \in DOMAIN reports'
                            /\ reports'[resp'.report_id].chart_file = local[p].chart_file
                            /\ local[p].chart_file \in DOMAIN static)]_vars

\* a run has failed after another had stored its report
C4_Witness ==
    /\ resp.kind = "error"
    /\ resp.reason = "exception"
    /\ Ids # {}
    /\ \E p \in Threads : pc[p] = "done" /\ \A id \in Ids :
          reports[id].original_filename # FileName(p)

\* C9: a view of a report shows the KPI summary, the top products and the
\* daily rollup that summarize computed in the run that created it, in their
\* order, with its chart_file, created_at and original_filename, whatever was
\* created, viewed or listed since; no step changes or removes a stored
\* report; and a view of an id that no report has answers not-found and
\* leaves the store as it was.
C9_ViewReturnsWhatWasStored ==
    /\ [](/\ \A i \in 1 .. Len(committed) :
                /\ committed[i].report_id \in Ids
                /\ ReportPage(reports[committed[i].report_id]) = Computed(committed[i])
          /\ resp.kind = "report" =>
                \E i \in 1 .. Len(committed) :
                    /\ committed[i].report_id = resp.id
                    /\ resp = Computed(committed[i])
          /\ resp.kind = "not_found" =>
                \A i \in 1 .. Len(committed) : committed[i].report_id # resp.id)
    /\ [][/\ \A id \in Ids : id \in DOMAIN reports' /\ reports'[id] = reports[id]
          /\ (resp' # resp /\ resp'.kind \in {"report", "not_found", "history"})
                => reports' = reports /\ static' = static]_vars

\* the first report, viewed after a second was created
C9_Witness ==
    /\ Len(committed) >= 2
    /\ resp.kind = "report"
    /\ resp.id = committed[1].report_id
    /\ Len(resp.top_products) >= 2
    /\ Len(resp.daily) >= 2

\* C10: the order of the ids is the order of the timestamps: of two stored
\* reports, the one of the larger id is not created_at earlier.
C10_IdOrderIsTimeOrder ==
    \A i, j \in Ids :
        i < j => reports[i].created_at.iso <= reports[j].created_at.iso

=============================================================================
